---- MODULE Spec2Model ----
(***************************************************************************)
(* Model of smap_io/interface.py: the single image reader SPL3SMP_Img and  *)
(* the date range expansion of SPL3SMP_Ds.                                 *)
(*                                                                         *)
(* Python strings are sequences of tokens ("soil_moisture" \o "_" \o "pm"),*)
(* so that concatenation, endswith, upper/lower and slicing are computed.  *)
(* numpy 1-D arrays are sequences, 2-D arrays are sequences of rows.       *)
(* Array indices are 0-based as in the source; element i of a 1-D array a  *)
(* is a[i + 1].                                                            *)
(***************************************************************************)
EXTENDS Integers, Sequences, FiniteSets, TLC

VARIABLES
    ds,          \* the HDF5 container behind self.filename
    self,        \* the attributes of the SPL3SMP_Img instance
    init_self,   \* history: the attributes as left by __init__
    result,      \* outcome of the last call (return value or exception)
    start_date,  \* argument of SPL3SMP_Ds.tstamps_for_daterange
    end_date,    \* argument of SPL3SMP_Ds.tstamps_for_daterange
    timestamps   \* return value of SPL3SMP_Ds.tstamps_for_daterange

vars == <<ds, self, init_self, result, start_date, end_date, timestamps>>

-----------------------------------------------------------------------------
(* Bounds *)

MaxRows == 2        \* rows of the raster stored in a file
MaxCols == 2        \* columns of the raster stored in a file
MaxDate == 5        \* start and end are drawn from the days 0 .. MaxDate
TicksPerDay == 2    \* resolution of the time of day of a datetime

-----------------------------------------------------------------------------
(* Python values *)

None == <<"<None>">>

Range(s) == {s[i] : i \in 1..Len(s)}

UpperTok(t) ==
    CASE t = "am" -> "AM"
      [] t = "pm" -> "PM"
      [] t = "xx" -> "XX"
      [] t = "Soil_Moisture_Retrieval_Data" -> "SOIL_MOISTURE_RETRIEVAL_DATA"
      [] t = "soil_moisture_retrieval_data" -> "SOIL_MOISTURE_RETRIEVAL_DATA"
      [] t = "Metadata" -> "METADATA"
      [] t = "soil_moisture" -> "SOIL_MOISTURE"
      [] OTHER -> t

LowerTok(t) ==
    CASE t = "AM" -> "am"
      [] t = "PM" -> "pm"
      [] t = "XX" -> "xx"
      [] t = "Soil_Moisture_Retrieval_Data" -> "soil_moisture_retrieval_data"
      [] t = "SOIL_MOISTURE_RETRIEVAL_DATA" -> "soil_moisture_retrieval_data"
      [] t = "Metadata" -> "metadata"
      [] OTHER -> t

\* str.upper()
Upper(s) == [i \in 1..Len(s) |-> UpperTok(s[i])]

\* str.lower()
Lower(s) == [i \in 1..Len(s) |-> LowerTok(s[i])]

\* str.endswith(suffix)
EndsWith(s, suffix) ==
    /\ Len(s) >= Len(suffix)
    /\ SubSeq(s, Len(s) - Len(suffix) + 1, Len(s)) = suffix

\* the literal text of self.overpass_templ before the {orbit} field
overpass_templ == <<"Soil_Moisture_Retrieval_Data">>

\* self.overpass_templ.format(orbit=orbit)
Format(orbit) == overpass_templ \o orbit

\* parse(self.overpass_templ, k): the text matched by {orbit}, or None.
\* The literal part is matched ignoring case, the field needs at least one
\* character, and the whole of k has to be consumed.
Parse(k) ==
    IF /\ Len(k) > Len(overpass_templ)
       /\ Lower(SubSeq(k, 1, Len(overpass_templ))) = Lower(overpass_templ)
    THEN SubSeq(k, Len(overpass_templ) + 1, Len(k))
    ELSE None

-----------------------------------------------------------------------------
(* numpy *)

\* np.flipud(a): reverse along the leading axis
FlipUd(a) == [i \in 1..Len(a) |-> a[Len(a) + 1 - i]]

RECURSIVE Flatten(_)
\* ndarray.flatten() of a 2-D array: row-major
Flatten(a) == IF a = <<>> THEN <<>> ELSE Head(a) \o Flatten(Tail(a))

\* np.prod(shape)
RECURSIVE Prod(_)
Prod(shape) == IF shape = <<>> THEN 1 ELSE Head(shape) * Prod(Tail(shape))

\* the array is filled column by column
Reshape_colmajor(a, shape) ==
    IF Len(shape) = 2
    THEN [r \in 1..shape[1] |-> [c \in 1..shape[2] |-> a[(c - 1) * shape[1] + r]]]
    ELSE a

\* ndarray.reshape(shape) of a 1-D array for a 1- or 2-tuple shape
Reshape(a, shape) ==
    IF Len(shape) = 2
    THEN [r \in 1..shape[1] |-> [c \in 1..shape[2] |-> a[(r - 1) * shape[2] + c]]]
    ELSE a

\* data[self.grid.activegpis]: fancy indexing with 0-based positions
Take(data, gpis) == [i \in 1..Len(gpis) |-> data[gpis[i] + 1]]

\* the rows are not reversed
RasterOf_noflip(a, shape) == Reshape(a, shape)

\* np.flipud(a.reshape(shape))
RasterOf(a, shape) == FlipUd(Reshape(a, shape))

-----------------------------------------------------------------------------
(* The input file: an HDF5 container of groups of fields *)

AM == <<"AM">>
PM == <<"PM">>

soil_moisture       == <<"soil_moisture">>
soil_moisture_pm    == <<"soil_moisture", "_", "pm">>
soil_moisture_pm_pm == <<"soil_moisture", "_", "pm", "_", "pm">>

\* the values of a field: an R x C raster whose cells are all different
Raster(R, C, first) ==
    [r \in 1..R |-> [c \in 1..C |-> first + (r - 1) * C + (c - 1)]]

\* all top-level group names a file may have, in the order of ds.keys()
GroupOrder ==
    << <<"Metadata">>,
       <<"Soil_Moisture_Retrieval_Data">>,
       <<"Soil_Moisture_Retrieval_Data", "_", "AM">>,
       <<"Soil_Moisture_Retrieval_Data", "_", "PM">>,
       <<"Soil_Moisture_Retrieval_Data", "_", "am">> >>

GroupSets == (SUBSET {GroupOrder[2], GroupOrder[3], GroupOrder[4]})
                 \cup {{GroupOrder[5]}}

FieldSets ==
    { {soil_moisture, soil_moisture_pm},
      {soil_moisture_pm, soil_moisture_pm_pm} }

AttrNames == {"_FillValue", "valid_min", "valid_max"}

\* all three masking attributes, none of them, or one of them missing
AttrSets == {a \in SUBSET AttrNames : Cardinality(a) # 1}

Attrs(names) ==
    [a \in names \cup {"units"} |->
        CASE a = "_FillValue" -> 0 - 9999
          [] a = "valid_min"  -> 1
          [] a = "valid_max"  -> 3
          [] OTHER            -> 0]

\* the fields of one group hold different values, and so does one field in
\* different groups
FirstValue(g, f) ==
    (CASE g = GroupOrder[3] -> 0
       [] g = GroupOrder[4] -> 1
       [] g = GroupOrder[2] -> 2
       [] OTHER             -> 3) + (Len(f) - 1) \div 2

Container(R, C, groups, fields, attrs) ==
    [openable |-> TRUE,
     keys     |-> SelectSeq(GroupOrder,
                     LAMBDA g : g = GroupOrder[1] \/ g \in groups),
     groups   |-> [g \in groups \cup {GroupOrder[1]} |->
                     IF g = GroupOrder[1]
                     THEN [f \in {} |-> 0]
                     ELSE [f \in fields |->
                             [data  |-> Raster(R, C, FirstValue(g, f)),
                              attrs |-> Attrs(attrs)]]]]

\* a path h5py.File cannot open
Unopenable == [openable |-> FALSE, keys |-> <<>>, groups |-> [g \in {} |-> 0]]

-----------------------------------------------------------------------------
(* The grid: the query surface of pygeogrids.CellGrid used by read *)

Grid(gpis, C, shape) ==
    [activegpis   |-> gpis,
     activearrlon |-> [i \in 1..Len(gpis) |-> gpis[i] % C],
     activearrlat |-> [i \in 1..Len(gpis) |-> gpis[i] \div C],
     subset_shape |-> shape]

\* all cells of an R x C raster, in identity order
FullGrid(R, C) == Grid([i \in 1..(R * C) |-> i - 1], C, <<R, C>>)

\* a bounding box: the first row of cells
BboxGrid(R, C) == Grid([i \in 1..C |-> i - 1], C, <<1, C>>)

\* every second cell (a land mask): the active set is 1-dimensional
LandGrid(R, C) ==
    Grid([i \in 1..((R * C + 1) \div 2) |-> 2 * (i - 1)], C,
         <<(R * C + 1) \div 2>>)

\* every second cell, with the 2-d shape of the raster it was cut from
GapsGrid(R, C) ==
    Grid([i \in 1..((R * C + 1) \div 2) |-> 2 * (i - 1)], C, <<R, C>>)

\* smap_io.grid.EASE36CellGrid(): the predefined global grid
EASE36CellGrid == FullGrid(MaxRows, MaxCols)

GridKinds == {"none", "full", "bbox", "land", "gaps"}

GridArg(kind, R, C) ==
    CASE kind = "full" -> [given |-> TRUE, value |-> FullGrid(R, C)]
      [] kind = "bbox" -> [given |-> TRUE, value |-> BboxGrid(R, C)]
      [] kind = "land" -> [given |-> TRUE, value |-> LandGrid(R, C)]
      [] kind = "gaps" -> [given |-> TRUE, value |-> GapsGrid(R, C)]
      [] OTHER         -> [given |-> FALSE]

-----------------------------------------------------------------------------
(* SPL3SMP_Img *)

\* __init__: parameter is a string or a list of strings, grid is a grid or
\* not given
SPL3SMP_Img(parameter, overpass, var_overpass_str, grid, flatten) ==
    [grid             |-> IF ~grid.given THEN EASE36CellGrid ELSE grid.value,
     overpass         |-> IF overpass # None THEN Upper(overpass) ELSE None,
     var_overpass_str |-> var_overpass_str,
     parameters       |-> IF ~parameter.list
                          THEN <<parameter.value>> ELSE parameter.value,
     flatten          |-> flatten]

Raise(exc, args, warned) ==
    [call |-> "read", kind |-> "raise", exc |-> exc, args |-> args,
     warned |-> warned]

Image(lon, lat, data, metadata, timestamp, warned) ==
    [call |-> "read", kind |-> "Image", lon |-> lon, lat |-> lat,
     data |-> data, metadata |-> metadata, timestamp |-> timestamp,
     warned |-> warned]

\* the leading underscore is kept
Overpasses_underscore(keys) ==
    LET matched == SelectSeq(keys, LAMBDA k : Parse(k) # None)
    IN  [i \in 1..Len(matched) |-> Parse(matched[i])]

\* the loop over ds.keys() that collects the orbit of every matching group
Overpasses(keys) ==
    LET matched == SelectSeq(keys, LAMBDA k : Parse(k) # None)
    IN  [i \in 1..Len(matched) |-> Tail(Parse(matched[i]))]

\* the name of the group to read
SmField(overpass) ==
    Format(IF overpass # None /\ overpass # <<>>
           THEN <<"_">> \o Upper(overpass) ELSE <<>>)

\* the suffix of the variable names inside the group
VarSuffix(overpass) ==
    IF overpass # None /\ overpass # <<>>
    THEN (IF overpass = PM THEN <<"_", "pm">> ELSE <<>>)
    ELSE <<>>

\* the bounds of the valid range are masked as well
MaskValid_inclusive(data, attrs) ==
    IF AttrNames \subseteq DOMAIN attrs
    THEN [i \in 1..Len(data) |->
            IF data[i] <= attrs["valid_min"] \/ data[i] >= attrs["valid_max"]
            THEN attrs["_FillValue"] ELSE data[i]]
    ELSE data

\* masking by valid_min, valid_max and _FillValue; a KeyError skips it
MaskValid(data, attrs) ==
    IF AttrNames \subseteq DOMAIN attrs
    THEN [i \in 1..Len(data) |->
            IF data[i] < attrs["valid_min"] \/ data[i] > attrs["valid_max"]
            THEN attrs["_FillValue"] ELSE data[i]]
    ELSE data

\* the suffix is appended without looking at the end of the name
RetParamName_append(parameter, overpass, var_overpass_str) ==
    IF var_overpass_str
    THEN IF overpass = None
         THEN parameter
         ELSE parameter \o <<"_">> \o Lower(overpass)
    ELSE parameter

\* the name a variable is returned under
RetParamName(parameter, overpass, var_overpass_str) ==
    IF var_overpass_str
    THEN IF overpass = None
         THEN parameter
         ELSE IF ~EndsWith(parameter, <<"_">> \o Lower(overpass))
              THEN parameter \o <<"_">> \o Lower(overpass)
              ELSE parameter
    ELSE parameter

\* the body of the loop over self.parameters, for the i-th parameter; acc
\* holds return_data, return_meta and whether a warning was emitted
RECURSIVE ReadParameters(_, _, _, _, _)
ReadParameters(i, me, group, overpass, acc) ==
    IF i > Len(me.parameters)
    THEN acc
    ELSE
      LET parameter == me.parameters[i]
          name      == parameter \o VarSuffix(overpass)
      IN
      IF name \notin DOMAIN group
      THEN Raise("KeyError", name, acc.warned)
      ELSE
        LET param == group[name]
            flat  == Flatten(FlipUd(param.data))
        IN
        IF \E j \in 1..Len(me.grid.activegpis) :
               me.grid.activegpis[j] >= Len(flat)
        THEN Raise("IndexError", me.grid.activegpis, acc.warned)
        ELSE
          LET data == MaskValid(Take(flat, me.grid.activegpis), param.attrs)
              ret_param_name ==
                  RetParamName(parameter, overpass, me.var_overpass_str)
              key == {ret_param_name}
          IN ReadParameters(i + 1, me, group, overpass,
               [kind        |-> "ok",
                return_data |-> [k \in key |-> data] @@ acc.return_data,
                return_meta |-> [k \in key |-> param.attrs] @@ acc.return_meta,
                warned      |-> acc.warned
                                \/ (me.var_overpass_str /\ overpass = None)])

\* the dimension of the grid's shape is not checked
ShapeImage_anydim(me, return_data, return_meta, timestamp, warned) ==
    IF me.flatten
    THEN Image(me.grid.activearrlon, me.grid.activearrlat,
               return_data, return_meta, timestamp, warned)
    ELSE
      IF \/ Prod(me.grid.subset_shape) # Len(me.grid.activearrlon)
         \/ Prod(me.grid.subset_shape) # Len(me.grid.activearrlat)
      THEN Raise("ValueError", "The grid shape does not match", warned)
      ELSE
        Image(RasterOf(me.grid.activearrlon, me.grid.subset_shape),
              RasterOf(me.grid.activearrlat, me.grid.subset_shape),
              [param \in DOMAIN return_data |->
                  RasterOf(return_data[param], me.grid.subset_shape)],
              return_meta, timestamp, warned)

\* the return statement of read: flat arrays, or a raster of the grid's shape
ShapeImage(me, return_data, return_meta, timestamp, warned) ==
    IF me.flatten
    THEN Image(me.grid.activearrlon, me.grid.activearrlat,
               return_data, return_meta, timestamp, warned)
    ELSE
      IF Len(me.grid.subset_shape) # 2
      THEN Raise("ValueError", "Grid is 1-dimensional", warned)
      ELSE
        IF \/ Prod(me.grid.subset_shape) # Len(me.grid.activearrlon)
           \/ Prod(me.grid.subset_shape) # Len(me.grid.activearrlat)
        THEN Raise("ValueError", "The grid shape does not match", warned)
        ELSE
          Image(RasterOf(me.grid.activearrlon, me.grid.subset_shape),
                RasterOf(me.grid.activearrlat, me.grid.subset_shape),
                [param \in DOMAIN return_data |->
                    RasterOf(return_data[param], me.grid.subset_shape)],
                return_meta, timestamp, warned)

\* read from the resolved overpass on
ReadGroup(me, file, overpass, timestamp) ==
    LET sm_field == SmField(overpass) IN
    IF sm_field \notin Range(file.keys)
    THEN Raise("NameError", sm_field, FALSE)
    ELSE
      LET loop == ReadParameters(1, me, file.groups[sm_field], overpass,
                      [kind        |-> "ok",
                       return_data |-> [k \in {} |-> <<>>],
                       return_meta |-> [k \in {} |-> <<>>],
                       warned      |-> FALSE])
      IN IF loop.kind = "raise"
         THEN loop
         ELSE ShapeImage(me, loop.return_data, loop.return_meta, timestamp,
                         loop.warned)

\* read(timestamp): the outcome ret of the call and the value left in
\* self.overpass
read(me, file, timestamp) ==
    IF ~file.openable
    THEN [ret |-> Raise("IOError", "can not be opened", FALSE),
          overpass |-> me.overpass]
    ELSE
      IF me.overpass = None
      THEN
        LET overpasses == Overpasses(file.keys) IN
        IF Len(overpasses) > 1
        THEN [ret |-> Raise("IOError", overpasses, FALSE),
              overpass |-> me.overpass]
        ELSE
          IF Len(overpasses) = 0
          THEN [ret |-> Raise("IndexError", "list index out of range", FALSE),
                overpass |-> me.overpass]
          ELSE [ret |-> ReadGroup(me, file, Upper(overpasses[1]), timestamp),
                overpass |-> Upper(overpasses[1])]
      ELSE
        IF me.overpass \notin {AM, PM}
        THEN [ret |-> Raise("AssertionError", me.overpass, FALSE),
              overpass |-> me.overpass]
        ELSE [ret |-> ReadGroup(me, file, me.overpass, timestamp),
              overpass |-> me.overpass]

-----------------------------------------------------------------------------
(* SPL3SMP_Ds *)

\* a datetime is a number of ticks, TicksPerDay of them a day
timedelta(days) == days * TicksPerDay

\* timedelta.days of the difference of two datetimes
Days(diff) == diff \div TicksPerDay

\* the loop stops one day early
tstamps_for_daterange_short(start, end) ==
    [i \in 1..Days(end - start) |-> start + timedelta(i - 1)]

tstamps_for_daterange(start, end) ==
    [i \in 1..(Days(end - start) + 1) |-> start + timedelta(i - 1)]

-----------------------------------------------------------------------------
(* Inputs *)

ParameterArgs ==
    { [list |-> FALSE, value |-> soil_moisture],
      [list |-> TRUE,  value |-> <<soil_moisture_pm>>],
      [list |-> TRUE,  value |-> <<soil_moisture, soil_moisture_pm>>] }

OverpassArgs == {None, <<"AM">>, <<"PM">>, <<"pm">>, <<"xx">>}

Files ==
    {Unopenable} \cup
    { Container(R, C, g, f, a) :
        R \in 1..MaxRows, C \in 1..MaxCols,
        g \in GroupSets, f \in FieldSets, a \in AttrSets }

\* the shape of the rasters of a file
Rows(file) ==
    IF \E g \in DOMAIN file.groups : DOMAIN file.groups[g] # {}
    THEN LET g == CHOOSE g \in DOMAIN file.groups : DOMAIN file.groups[g] # {}
             f == CHOOSE f \in DOMAIN file.groups[g] : TRUE
         IN  Len(file.groups[g][f].data)
    ELSE 1

Cols(file) ==
    IF \E g \in DOMAIN file.groups : DOMAIN file.groups[g] # {}
    THEN LET g == CHOOSE g \in DOMAIN file.groups : DOMAIN file.groups[g] # {}
             f == CHOOSE f \in DOMAIN file.groups[g] : TRUE
         IN  Len(file.groups[g][f].data[1])
    ELSE 1

Timestamps == {None, <<"2020-05-15">>}

Datetimes == 0..(MaxDate * TicksPerDay)

-----------------------------------------------------------------------------
(* The reader: one instance on one file *)

Init ==
    /\ ds \in Files
    /\ \E parameter \in ParameterArgs, overpass \in OverpassArgs,
          var_overpass_str \in BOOLEAN, kind \in GridKinds,
          flatten \in BOOLEAN :
          self = SPL3SMP_Img(parameter, overpass, var_overpass_str,
                             GridArg(kind, Rows(ds), Cols(ds)), flatten)
    /\ init_self = self
    /\ result = [call |-> "__init__", kind |-> "None"]
    /\ start_date = 0
    /\ end_date = 0
    /\ timestamps = <<>>

Read ==
    \E timestamp \in Timestamps :
        LET out == read(self, ds, timestamp) IN
        /\ result' = out.ret
        /\ self' = [self EXCEPT !.overpass = out.overpass]
        /\ UNCHANGED <<ds, init_self, start_date, end_date, timestamps>>

Write ==
    /\ result' = [call |-> "write", kind |-> "raise",
                  exc |-> "NotImplementedError"]
    /\ UNCHANGED <<ds, self, init_self, start_date, end_date, timestamps>>

Flush ==
    /\ result' = [call |-> "flush", kind |-> "None"]
    /\ UNCHANGED <<ds, self, init_self, start_date, end_date, timestamps>>

Close ==
    /\ result' = [call |-> "close", kind |-> "None"]
    /\ UNCHANGED <<ds, self, init_self, start_date, end_date, timestamps>>

Next == Read \/ Write \/ Flush \/ Close

Spec == Init /\ [][Next]_vars

-----------------------------------------------------------------------------
(* The dataset: date range expansion *)

InitDs ==
    /\ ds \in {Unopenable,
               Container(1, 1, {GroupOrder[3]}, {soil_moisture}, {})}
    /\ self = None
    /\ init_self = None
    /\ result = [call |-> "__init__", kind |-> "None"]
    /\ start_date \in Datetimes
    /\ end_date \in Datetimes
    /\ timestamps = <<>>

TstampsForDaterange ==
    /\ timestamps' = tstamps_for_daterange(start_date, end_date)
    /\ result' = [call |-> "tstamps_for_daterange", kind |-> "list"]
    /\ UNCHANGED <<ds, self, init_self, start_date, end_date>>

NextDs == TstampsForDaterange

SpecDs == InitDs /\ [][NextDs]_vars

-----------------------------------------------------------------------------
(* Properties *)

IsRead   == result.call = "read"
Returned == IsRead /\ result.kind = "Image"
Failed   == IsRead /\ result.kind = "raise"

\* the overpass-suffixed groups Soil_Moisture_Retrieval_Data_<X> of the file
Suffixed ==
    {k \in Range(ds.keys) :
        Len(k) = 3 /\ k[1] = "Soil_Moisture_Retrieval_Data" /\ k[2] = "_"}

\* the grid of the reader
TheGrid == init_self.grid

\* the grid reports a 2-tuple shape whose product is the active point count
Rectangular ==
    /\ Len(TheGrid.subset_shape) = 2
    /\ TheGrid.subset_shape[1] * TheGrid.subset_shape[2]
           = Len(TheGrid.activearrlon)
    /\ TheGrid.subset_shape[1] * TheGrid.subset_shape[2]
           = Len(TheGrid.activearrlat)

\* every active point of the grid is a cell of the rasters of the file
GridFits ==
    \A i \in 1..Len(TheGrid.activegpis) :
        TheGrid.activegpis[i] < Rows(ds) * Cols(ds)

\* group g is in the file and holds every requested parameter under
\* parameter + suffix
Holds(g, suffix) ==
    /\ g \in Range(ds.keys)
    /\ \A i \in 1..Len(init_self.parameters) :
           init_self.parameters[i] \o suffix \in DOMAIN ds.groups[g]

\* C1: for dates start <= end, tstamps_for_daterange returns
\* (end - start).days + 1 entries, strictly increasing and one day apart,
\* the first start_date and the last end_date; for datetimes with a time of
\* day the count and the spacing are the same and the last entry is less
\* than a day before end_date. The result is determined by the two dates,
\* whatever the file system holds.
C1_DateRange ==
    (result.call = "tstamps_for_daterange" /\ end_date >= start_date) =>
        LET n == (end_date - start_date) \div TicksPerDay + 1 IN
        /\ Len(timestamps) = n
        /\ timestamps[1] = start_date
        /\ \A i \in 1..(n - 1) :
               timestamps[i + 1] = timestamps[i] + TicksPerDay
        /\ timestamps[n] <= end_date
        /\ end_date - timestamps[n] < TicksPerDay
        /\ (start_date % TicksPerDay = 0 /\ end_date % TicksPerDay = 0)
               => timestamps[n] = end_date

C1_Witness ==
    /\ result.call = "tstamps_for_daterange"
    /\ start_date % TicksPerDay = 0
    /\ end_date = start_date + 3 * TicksPerDay
    /\ Len(timestamps) = 4
    /\ timestamps[4] = end_date

\* C2: with overpass unset, a file with exactly one suffixed group _X is
\* read with overpass X in upper case (no ambiguity error, and an Image is
\* returned when group and fields of that overpass are there and the grid
\* fits); a file with more than one suffixed group fails with the IOError
\* that lists every candidate.
C2_ResolveOverpass ==
    (IsRead /\ init_self.overpass = None /\ ds.openable) =>
        /\ Cardinality(Suffixed) = 1 =>
             LET X == (CHOOSE k \in Suffixed : TRUE)[3]
                 field == <<"Soil_Moisture_Retrieval_Data", "_", UpperTok(X)>>
             IN
             /\ self.overpass = <<UpperTok(X)>>
             /\ Failed => result.exc \in {"NameError", "KeyError",
                                          "IndexError", "ValueError"}
             /\ (Failed /\ result.exc = "NameError") =>
                    (result.args = field /\ field \notin Range(ds.keys))
             /\ (/\ Holds(field, IF UpperTok(X) = "PM"
                                 THEN <<"_", "pm">> ELSE <<>>)
                 /\ GridFits
                 /\ init_self.flatten \/ Rectangular)
                    => Returned
             /\ (Returned /\ init_self.var_overpass_str) =>
                    \A k \in DOMAIN result.data :
                        EndsWith(k, <<"_", LowerTok(X)>>)
        /\ Cardinality(Suffixed) > 1 =>
             /\ Failed
             /\ result.exc = "IOError"
             /\ Range(result.args) = {<<k[3]>> : k \in Suffixed}
             /\ Len(result.args) = Cardinality(Suffixed)

C2_Witness ==
    /\ Returned
    /\ init_self.overpass = None
    /\ Suffixed = {<<"Soil_Moisture_Retrieval_Data", "_", "PM">>}
    /\ self.overpass = <<"PM">>


\* C3: with overpass unset and a file that has the unsuffixed group only,
\* read goes on without overpass: it reads the unsuffixed group with an empty
\* variable suffix, warns if output suffixing is on, and returns every
\* variable under its requested name.
C3_NoOverpass ==
    (/\ IsRead
     /\ init_self.overpass = None
     /\ ds.openable
     /\ Suffixed = {}
     /\ Holds(<<"Soil_Moisture_Retrieval_Data">>, <<>>)
     /\ GridFits
     /\ init_self.flatten \/ Rectangular)
        => /\ Returned
           /\ DOMAIN result.data = Range(init_self.parameters)
           /\ result.warned = init_self.var_overpass_str

\* the values of field f of group g at the active points of the grid, before
\* masking
RawValues(g, f) ==
    Take(Flatten(FlipUd(ds.groups[g][f].data)), TheGrid.activegpis)

\* the samples of an output array in the order of the active points
Samples(a) == IF init_self.flatten THEN a ELSE Flatten(FlipUd(a))

\* the same file with all three masking attributes on every field
WithAllAttrs(file) ==
    [file EXCEPT !.groups =
        [g \in DOMAIN @ |->
            [f \in DOMAIN @[g] |->
                [@[g][f] EXCEPT !.attrs = Attrs(AttrNames)]]]]

\* C4: every output variable holds the values of a field of the file in which
\* a sample is the field's _FillValue iff the field has _FillValue, valid_min
\* and valid_max and the raw value is < valid_min or > valid_max, and is the
\* raw value otherwise (so the bounds themselves are kept); a field without
\* one of the attributes comes back unchanged, and a missing attribute never
\* makes a read fail that succeeds with the attributes.
C4_Masking ==
    IsRead =>
      /\ Returned =>
           \A k \in DOMAIN result.data :
             \E g \in Range(ds.keys) : \E f \in DOMAIN ds.groups[g] :
               LET raw   == RawValues(g, f)
                   out   == Samples(result.data[k])
                   attrs == ds.groups[g][f].attrs
                   all3  == /\ "_FillValue" \in DOMAIN attrs
                            /\ "valid_min" \in DOMAIN attrs
                            /\ "valid_max" \in DOMAIN attrs
               IN /\ result.metadata[k] = attrs
                  /\ Len(out) = Len(raw)
                  /\ \A i \in 1..Len(raw) :
                       IF all3 /\ (raw[i] < attrs["valid_min"]
                                     \/ raw[i] > attrs["valid_max"])
                       THEN out[i] = attrs["_FillValue"]
                       ELSE out[i] = raw[i]
      /\ (ds.openable
            /\ read(init_self, WithAllAttrs(ds), None).ret.kind = "Image")
           => Returned

C4_Witness ==
    /\ Returned
    /\ \E k \in DOMAIN result.data :
         LET out == Samples(result.data[k]) IN
         /\ AttrNames \subseteq DOMAIN result.metadata[k]
         /\ \E i \in 1..Len(out) : out[i] = 0 - 9999
         /\ \E i \in 1..Len(out) : out[i] = 1
         /\ \E i \in 1..Len(out) : out[i] = 3

\* C5: with output suffixing on and overpass PM, soil_moisture and
\* soil_moisture_pm are both returned under soil_moisture_pm (never under a
\* doubled suffix); with output suffixing off the keys are the requested
\* names for either overpass; data and metadata have the same keys.
C5_OutputNames ==
    Returned =>
      /\ DOMAIN result.data = DOMAIN result.metadata
      /\ (init_self.var_overpass_str /\ init_self.overpass = <<"PM">>) =>
           (Range(init_self.parameters)
                \subseteq {<<"soil_moisture">>, <<"soil_moisture", "_", "pm">>}
              => DOMAIN result.data = {<<"soil_moisture", "_", "pm">>})
      /\ ~init_self.var_overpass_str =>
           DOMAIN result.data = Range(init_self.parameters)

C5_Witness ==
    /\ Returned
    /\ init_self.var_overpass_str
    /\ init_self.overpass = <<"PM">>
    /\ init_self.parameters = << <<"soil_moisture", "_", "pm">> >>
    /\ DOMAIN result.data = {<<"soil_moisture", "_", "pm">>}


\* the raster of soil_moisture in the ascending group, as stored
InputRaster ==
    ds.groups[<<"Soil_Moisture_Retrieval_Data", "_", "AM">>]
             [<<"soil_moisture">>].data

\* the end-to-end scenario: one ascending group, soil_moisture requested, no
\* masking attributes, all cells of the raster active in identity order
EndToEnd ==
    /\ IsRead
    /\ ds.openable
    /\ Suffixed = {<<"Soil_Moisture_Retrieval_Data", "_", "AM">>}
    /\ init_self.overpass \in {None, <<"AM">>}
    /\ Holds(<<"Soil_Moisture_Retrieval_Data", "_", "AM">>, <<>>)
    /\ <<"soil_moisture">> \in Range(init_self.parameters)
    /\ \A a \in AttrNames :
         a \notin DOMAIN ds.groups[<<"Soil_Moisture_Retrieval_Data", "_", "AM">>]
                                  [<<"soil_moisture">>].attrs
    /\ TheGrid.activegpis =
         [i \in 1..(Len(InputRaster) * Len(InputRaster[1])) |-> i - 1]
    /\ TheGrid.subset_shape = <<Len(InputRaster), Len(InputRaster[1])>>

\* the key soil_moisture is returned under in the ascending overpass
SoilMoistureKey ==
    IF init_self.var_overpass_str
    THEN <<"soil_moisture", "_", "am">> ELSE <<"soil_moisture">>

\* the row-major flattening of the row-reversed input raster
ReversedFlat ==
    LET R == Len(InputRaster)
        C == Len(InputRaster[1])
    IN  [i \in 1..(R * C) |->
            InputRaster[R - ((i - 1) \div C)][((i - 1) % C) + 1]]

\* C6 as stated: in the end-to-end scenario the raster read returns the
\* input array with the row order reversed, and the flattened read returns
\* the row-major flattening of the row-reversed input.
C6_Original ==
    EndToEnd =>
      /\ Returned
      /\ ~init_self.flatten =>
           result.data[SoilMoistureKey] =
             [r \in 1..Len(InputRaster) |->
                 InputRaster[Len(InputRaster) + 1 - r]]
      /\ init_self.flatten => result.data[SoilMoistureKey] = ReversedFlat

\* C6 amended: in the end-to-end scenario the raster read returns the input
\* array itself (the reversal before flattening and the reversal after
\* reshaping cancel), and the flattened read returns the row-major
\* flattening of the row-reversed input.
C6_EndToEnd ==
    EndToEnd =>
      /\ Returned
      /\ ~init_self.flatten => result.data[SoilMoistureKey] = InputRaster
      /\ init_self.flatten => result.data[SoilMoistureKey] = ReversedFlat

C6_Witness ==
    /\ EndToEnd
    /\ Returned
    /\ ~init_self.flatten
    /\ Len(InputRaster) = 2
    /\ Len(InputRaster[1]) = 2
    /\ result.data[SoilMoistureKey] = <<<<0, 1>>, <<2, 3>>>>

\* the outcome of reading the same file with the same reader options but
\* flatten=True
FlatRead ==
    read([init_self EXCEPT !.flatten = TRUE], ds, result.timestamp).ret

\* a is a 2-D array of shape (R, C) that is the 1-D array flat reshaped
\* row-major to (R, C) and then reversed along the rows
IsRasterOf(a, flat, R, C) ==
    /\ Len(a) = R
    /\ Len(flat) = R * C
    /\ \A r \in 1..R :
         /\ Len(a[r]) = C
         /\ \A c \in 1..C : a[r][c] = flat[(R - r) * C + c]

\* C7: on a rectangular grid of shape (R, C) a raster read returns
\* longitude, latitude and every variable with shape (R, C), a flattened
\* read returns them 1-D with R * C entries, the number of active points,
\* and each raster array is the flattened array of the same file and grid
\* reshaped row-major and reversed along the rows.
C7_ShapeLaw ==
    Returned =>
      LET R == TheGrid.subset_shape[1]
          C == TheGrid.subset_shape[2]
      IN
      /\ ~init_self.flatten =>
           /\ FlatRead.kind = "Image"
           /\ DOMAIN FlatRead.data = DOMAIN result.data
           /\ IsRasterOf(result.lon, FlatRead.lon, R, C)
           /\ IsRasterOf(result.lat, FlatRead.lat, R, C)
           /\ \A k \in DOMAIN result.data :
                IsRasterOf(result.data[k], FlatRead.data[k], R, C)
      /\ (init_self.flatten /\ Rectangular) =>
           /\ Len(result.lon) = R * C
           /\ Len(result.lat) = R * C
           /\ Len(TheGrid.activegpis) = R * C
           /\ \A k \in DOMAIN result.data : Len(result.data[k]) = R * C

C7_Witness ==
    /\ Returned
    /\ ~init_self.flatten
    /\ TheGrid.subset_shape = <<2, 2>>
    /\ FlatRead.kind = "Image"
    /\ \E k \in DOMAIN result.data :
         /\ result.data[k][1][1] = FlatRead.data[k][3]
         /\ result.data[k][1][1] # FlatRead.data[k][1]

\* C8: a raster read on a grid that is not rectangular (no 2-tuple shape, or
\* a shape whose product is not the number of active longitudes or
\* latitudes) returns no Image; it fails, with the ValueError of the shape
\* check whenever the flattened read of the same file succeeds.
C8_IrregularGrid ==
    (IsRead /\ ~init_self.flatten /\ ~Rectangular) =>
        /\ Failed
        /\ read([init_self EXCEPT !.flatten = TRUE], ds, None).ret.kind
               = "Image" => result.exc = "ValueError"

C8_Witness ==
    /\ Failed
    /\ ~init_self.flatten
    /\ Len(TheGrid.subset_shape) = 1
    /\ Len(TheGrid.activegpis) = 2
    /\ result.exc = "ValueError"

\* the group the claim expects to be read: built from the configured
\* overpass, from the one found in the file, or unsuffixed without overpass
ExpectedGroup ==
    IF init_self.overpass # None
    THEN <<"Soil_Moisture_Retrieval_Data", "_">> \o init_self.overpass
    ELSE IF Suffixed = {}
         THEN <<"Soil_Moisture_Retrieval_Data">>
         ELSE <<"Soil_Moisture_Retrieval_Data", "_",
                UpperTok((CHOOSE k \in Suffixed : TRUE)[3])>>

ExpectedSuffix ==
    IF ExpectedGroup = <<"Soil_Moisture_Retrieval_Data", "_", "PM">>
    THEN <<"_", "pm">> ELSE <<>>

\* C9: a read fails and returns no Image when a required field is missing:
\* (a) the group built from the overpass (configured, found in the file, or
\* none) is not in the file: NameError naming that group, and a configured
\* overpass is only ever read from its own group; (b) the group lacks
\* parameter + suffix; (c) a configured overpass is neither AM nor PM.
C9_MissingField ==
    (IsRead /\ ds.openable) =>
      /\ (init_self.overpass \in {None, <<"AM">>, <<"PM">>}
            /\ Cardinality(Suffixed) <= 1
            /\ ExpectedGroup \notin Range(ds.keys))
           => /\ Failed
              /\ result.exc = "NameError"
              /\ result.args = ExpectedGroup
      /\ (init_self.overpass \in {<<"AM">>, <<"PM">>} /\ Returned)
           => \A k \in DOMAIN result.data :
                 \E f \in DOMAIN ds.groups[ExpectedGroup] :
                    \A i \in 1..Len(RawValues(ExpectedGroup, f)) :
                       Samples(result.data[k])[i] \in
                          {RawValues(ExpectedGroup, f)[i], 0 - 9999}
      /\ (init_self.overpass \in {None, <<"AM">>, <<"PM">>}
            /\ Cardinality(Suffixed) <= 1
            /\ ExpectedGroup \in Range(ds.keys)
            /\ ~Holds(ExpectedGroup, ExpectedSuffix))
           => Failed
      /\ init_self.overpass \notin {None, <<"AM">>, <<"PM">>} => Failed

\* C10: the configuration of the reader is the one the constructor set,
\* after any sequence of read, write, flush and close.
C10_ConfigImmutable == self = init_self

====
